---------------------------- MODULE Spec2Model ----------------------------
(***************************************************************************)
(* A model of the rule-resolution core of the engine:                      *)
(*   - the rule registry (tasks.rs): intrinsics, tasks, preparing and the   *)
(*     registration lifecycle task_add / add_* / task_end / intrinsic_add;  *)
(*   - the node model (nodes.rs): Node::create and the step of every node   *)
(*     kind, written as operators over (node, completion map, registry);    *)
(*   - a scheduler driving Node::step, as the design document describes it; *)
(*   - the subclass bridge (externs.rs): IsSubClassFunction and its cache.   *)
(* Option<T> is a sequence of length at most one: <<>> is None, <<x>> is    *)
(* Some(x).  A panic!/assert!/expect failure is the outcome "Panic".        *)
(***************************************************************************)
EXTENDS Naturals, Sequences, FiniteSets, TLC

VARIABLES
  registry,   \* the Tasks struct: [intrinsics, tasks, preparing, aborted]
  ghost,      \* the registration calls accepted so far (history, not program state)
  calls,      \* number of registration calls made so far
  node,       \* the node a caller of Node::step is stepping
  deps,       \* the completion map the caller holds for it: Node -> Complete
  seen,       \* the completion map handed to the last call of Node::step
  out,        \* what that call returned
  sched,      \* the scheduler's table, one per run: Node -> entry
  bridge      \* the IsSubClassFunction instance: [cache, invoked, result]

vars == <<registry, ghost, calls, node, deps, seen, out, sched, bridge>>

(***************************************************************************)
(* Bounds of the model.                                                    *)
(***************************************************************************)
MaxCalls == 6

(***************************************************************************)
(* core.rs: Digest, TypeId, Function, Field, Key, Variants.                *)
(***************************************************************************)
None == <<>>
Some(x) == <<x>>

Key(d, t) == [digest |-> d, type_id |-> t]

\* The types the registry is constructed with (Tasks::new).
type_address == "Address"
type_has_products == "HasProducts"
type_has_variants == "HasVariants"

Types == {"Address", "SubAddress", "HasProducts", "HasVariants", "Bag",
          "P", "SubP", "Q", "List", "Field"}

Functions == {"f1", "f2", "fi"}

\* Host values.
kAddr == Key(1, "Address")
kSubAddr == Key(2, "SubAddress")
kP == Key(3, "P")
kSubP == Key(4, "SubP")
kQ == Key(5, "Q")
kBag == Key(6, "Bag")
kQ2 == Key(7, "Q")

\* Fields and variant keys/values.
fDeps == Key(20, "Field")
fProj == Key(21, "Field")
vkA == Key(22, "Field")
vkB == Key(23, "Field")
vv1 == Key(24, "Field")
vv2 == Key(25, "Field")

(***************************************************************************)
(* The host behind the bridge (externs.rs): a deterministic host.          *)
(***************************************************************************)
HostIsSubclass(cls, super_cls) ==
  <<cls, super_cls>> \in {<<"SubAddress", "Address">>, <<"Bag", "HasProducts">>,
                          <<"SubP", "P">>}

\* project_multi(key, field): the ordered elements of a collection field.
HostProjectMulti(key, field) ==
  IF field # fDeps THEN <<>>
  ELSE CASE key = kQ -> <<kP, kAddr, kP>>
         [] key = kQ2 -> <<kSubP>>
         [] OTHER -> <<>>

\* store_list(keys): interns the list; the digest encodes the items in order.
RECURSIVE ListDigest(_)
ListDigest(items) ==
  IF items = <<>> THEN 1
  ELSE 100 * ListDigest(SubSeq(items, 1, Len(items) - 1))
       + items[Len(items)].digest

HostStoreList(items) == Key(1000 + ListDigest(items), "List")

(***************************************************************************)
(* selectors: the Selector variants and Selector::select.                  *)
(***************************************************************************)
Select(product, variant_key) ==
  [kind |-> "Select", product |-> product, variant_key |-> variant_key]

SelectLiteral(subject, product) ==
  [kind |-> "SelectLiteral", subject |-> subject, product |-> product]

SelectDependencies(product, dep_product, field, transitive) ==
  [kind |-> "SelectDependencies", product |-> product, dep_product |-> dep_product,
   field |-> field, transitive |-> transitive]

SelectProjection(product, projected_subject, field, input_product) ==
  [kind |-> "SelectProjection", product |-> product,
   projected_subject |-> projected_subject, field |-> field,
   input_product |-> input_product]

Task(cacheable, product, clause_, func) ==
  [kind |-> "Task", cacheable |-> cacheable, product |-> product,
   clause |-> clause_, func |-> func]

Selector_select(product) == Select(product, None)

(***************************************************************************)
(* tasks.rs: the registry.                                                 *)
(***************************************************************************)
Tasks_new ==
  [intrinsics |-> <<>>, tasks |-> <<>>, preparing |-> None, aborted |-> FALSE]

\* HashMap::get
MapGet(m, k) == IF k \in DOMAIN m THEN Some(m[k]) ELSE None

\* HashMap::entry(k).or_insert_with(Vec::new)
MapEntry(m, k) ==
  IF k \in DOMAIN m THEN m ELSE [x \in DOMAIN m \cup {k} |-> IF x = k THEN <<>> ELSE m[x]]

\* Option::or
OptionOr(a, b) == IF a # None THEN a ELSE b

gen_tasks_merged(t, subject_type, product) ==
  LET i == MapGet(t.intrinsics, <<subject_type, product>>)
      b == MapGet(t.tasks, product)
  IN  IF i = None THEN b ELSE IF b = None THEN i ELSE Some(i[1] \o b[1])

gen_tasks(t, subject_type, product) ==
  OptionOr(MapGet(t.intrinsics, <<subject_type, product>>), MapGet(t.tasks, product))

\* intrinsic_add registering its rule with the builder's cacheable flag.
intrinsic_add_cacheable(t, func, subject_type, product) ==
  LET k == <<subject_type, product>>
      m == MapEntry(t.intrinsics, k)
  IN  [t EXCEPT !.intrinsics =
         [m EXCEPT ![k] = Append(m[k], Task(TRUE, product, <<Selector_select(subject_type)>>, func))]]

intrinsic_add(t, func, subject_type, product) ==
  LET k == <<subject_type, product>>
      m == MapEntry(t.intrinsics, k)
  IN  [t EXCEPT !.intrinsics =
         [m EXCEPT ![k] = Append(m[k], Task(FALSE, product, <<Selector_select(subject_type)>>, func))]]

\* task_add installing its rule over the one being prepared.
task_add_replace(t, func, product) ==
  [t EXCEPT !.preparing = Some(Task(TRUE, product, <<>>, func))]

task_add(t, func, product) ==
  IF t.preparing # None
  THEN [t EXCEPT !.aborted = TRUE]
  ELSE [t EXCEPT !.preparing = Some(Task(TRUE, product, <<>>, func))]

clause_prepend(t, selector) ==
  IF t.preparing = None
  THEN [t EXCEPT !.aborted = TRUE]
  ELSE [t EXCEPT !.preparing =
         Some([t.preparing[1] EXCEPT !.clause = <<selector>> \o t.preparing[1].clause])]

clause(t, selector) ==
  IF t.preparing = None
  THEN [t EXCEPT !.aborted = TRUE]
  ELSE [t EXCEPT !.preparing =
         Some([t.preparing[1] EXCEPT !.clause = Append(t.preparing[1].clause, selector)])]

add_select(t, product, variant_key) == clause(t, Select(product, variant_key))

add_select_dependencies(t, product, dep_product, field, transitive) ==
  clause(t, SelectDependencies(product, dep_product, field, transitive))

add_select_projection(t, product, projected_subject, field, input_product) ==
  clause(t, SelectProjection(product, projected_subject, field, input_product))

add_select_literal(t, subject, product) ==
  clause(t, SelectLiteral(subject, product))

Contains(s, x) == \E i \in 1..Len(s) : s[i] = x

task_end_unchecked(t) ==
  IF t.preparing = None
  THEN [t EXCEPT !.aborted = TRUE]
  ELSE LET task == t.preparing[1]
           m == MapEntry(t.tasks, task.product)
       IN  [t EXCEPT !.preparing = None,
                     !.tasks = [m EXCEPT ![task.product] = Append(m[task.product], task)]]

task_end(t) ==
  IF t.preparing = None
  THEN [t EXCEPT !.aborted = TRUE]
  ELSE LET task == t.preparing[1]
           m == MapEntry(t.tasks, task.product)
       IN  IF Contains(m[task.product], task)
           THEN [t EXCEPT !.preparing = None, !.tasks = m, !.aborted = TRUE]
           ELSE [t EXCEPT !.preparing = None,
                          !.tasks = [m EXCEPT ![task.product] = Append(m[task.product], task)]]


(***************************************************************************)
(* nodes.rs: Arg, Runnable, State, Complete.                               *)
(***************************************************************************)
ArgValue(key) == [kind |-> "Value", key |-> key]

Runnable(func, args, cacheable) ==
  [func |-> func, args |-> args, cacheable |-> cacheable]

Return(key) == [kind |-> "Return", key |-> key]
Noop(msg, cause) == [kind |-> "Noop", msg |-> msg, cause |-> cause]
Throw(msg) == [kind |-> "Throw", msg |-> msg]

Waiting(nodes) == [kind |-> "Waiting", nodes |-> nodes]
Complete(c) == [kind |-> "Complete", complete |-> c]
RunnableState(r) == [kind |-> "Runnable", runnable |-> r]
\* A step that does not return: panic!.
Panic(msg) == [kind |-> "Panic", msg |-> msg]

(***************************************************************************)
(* nodes.rs: the Node variants, Node::create and Node::format.             *)
(***************************************************************************)
SelectNode(subject, variants, selector) ==
  [kind |-> "Select", subject |-> subject, variants |-> variants, selector |-> selector]

SelectLiteralNode(subject, variants, selector) ==
  [kind |-> "SelectLiteral", subject |-> subject, variants |-> variants,
   selector |-> selector]

SelectDependenciesNode(subject, variants, selector) ==
  [kind |-> "SelectDependencies", subject |-> subject, variants |-> variants,
   selector |-> selector]

ProjectFieldNode(subject, variants, selector) ==
  [kind |-> "ProjectField", subject |-> subject, variants |-> variants,
   selector |-> selector]

SelectProjectionNode(subject, variants, selector) ==
  [kind |-> "SelectProjection", subject |-> subject, variants |-> variants,
   selector |-> selector]

TaskNode(subject, product, variants, selector) ==
  [kind |-> "Task", subject |-> subject, product |-> product, variants |-> variants,
   selector |-> selector]

Node_create(selector, subject, variants) ==
  CASE selector.kind = "Select" -> SelectNode(subject, variants, selector)
    [] selector.kind = "SelectLiteral" ->
         SelectLiteralNode(selector.subject, variants, selector)
    [] selector.kind = "SelectDependencies" ->
         SelectDependenciesNode(subject, variants, selector)
    [] selector.kind = "SelectProjection" ->
         SelectProjectionNode(subject, variants, selector)
    [] selector.kind = "Task" -> TaskNode(subject, selector.product, variants, selector)

Node_format(n) ==
  CASE n.kind = "Select" -> "Select"
    [] n.kind = "SelectLiteral" -> "Literal"
    [] n.kind = "SelectDependencies" -> "Dependencies"
    [] n.kind = "ProjectField" -> "ProjectField"
    [] n.kind = "SelectProjection" -> "Projection"
    [] n.kind = "Task" -> "Task(" \o n.selector.func \o ")"

(***************************************************************************)
(* nodes.rs: StepContext.                                                  *)
(***************************************************************************)
StepContext(deps_, tasks_) == [deps |-> deps_, tasks |-> tasks_]

gen_nodes(context, subject, product, variants) ==
  LET found == gen_tasks(context.tasks, subject.type_id, product)
  IN  IF found = None THEN <<>>
      ELSE [i \in 1..Len(found[1]) |-> TaskNode(subject, product, variants, found[1][i])]

get(context, n) == MapGet(context.deps, n)

\* externs.rs, IsSubClassFunction: the cache of answers.  invoked counts the
\* invocations of the host's issubclass per pair and result holds what the last
\* call returned (both are history, not program state).
IsSubClassFunction_new ==
  [cache |-> <<>>, invoked |-> <<>>, result |-> None]

\* call with the cache keyed by cls alone.
IsSubClassFunction_call_by_cls(self, cls, super_cls) ==
  LET k == <<cls, cls>>
      hit == k \in DOMAIN self.cache
      m == IF hit THEN self.cache
           ELSE [x \in DOMAIN self.cache \cup {k} |->
                   IF x = k THEN HostIsSubclass(cls, super_cls) ELSE self.cache[x]]
      n == IF <<cls, super_cls>> \in DOMAIN self.invoked
           THEN self.invoked[<<cls, super_cls>>] ELSE 0
  IN  [cache |-> m,
       invoked |-> IF hit THEN self.invoked
                   ELSE [x \in DOMAIN self.invoked \cup {<<cls, super_cls>>} |->
                           IF x = <<cls, super_cls>> THEN n + 1 ELSE self.invoked[x]],
       result |-> Some([cls |-> cls, super_cls |-> super_cls, answer |-> m[k]])]

\* cache.entry((cls, super_cls)).or_insert_with(|| issubclass(cls, super_cls)).clone()
IsSubClassFunction_call_cached(self, cls, super_cls) ==
  LET k == <<cls, super_cls>>
      hit == k \in DOMAIN self.cache
      m == IF hit THEN self.cache
           ELSE [x \in DOMAIN self.cache \cup {k} |->
                   IF x = k THEN HostIsSubclass(cls, super_cls) ELSE self.cache[x]]
      n == IF k \in DOMAIN self.invoked THEN self.invoked[k] ELSE 0
  IN  [cache |-> m,
       invoked |-> IF hit THEN self.invoked
                   ELSE [x \in DOMAIN self.invoked \cup {k} |->
                           IF x = k THEN n + 1 ELSE self.invoked[x]],
       result |-> Some([cls |-> cls, super_cls |-> super_cls, answer |-> m[k]])]

\* externs.rs, IsSubClassFunction::call as Node::step sees it: the answer for
\* the pair, which is the host's whatever the cache holds.
IsSubClassFunction_call(cls, super_cls) == HostIsSubclass(cls, super_cls)

\* isinstance comparing the type ids only, without asking the host.
isinstance_exact(context, item, superclass) == item.type_id = superclass

isinstance(context, item, superclass) ==
  IF item.type_id = superclass THEN TRUE
  ELSE IsSubClassFunction_call(item.type_id, superclass)

has_products(context, item) == isinstance(context, item, type_has_products)

\* The three projections are panic!("TODO: Not implemented").
field_name(context, item) == Panic("TODO: Not implemented")
field_variants(context, item) == Panic("TODO: Not implemented")
field_products(context, item) == Panic("TODO: Not implemented")

store_list(context, items) == HostStoreList(items)

project(context, item, field) ==
  Runnable("project", <<ArgValue(item), ArgValue(field)>>, TRUE)

project_multi(context, item, field) == HostProjectMulti(item, field)

(***************************************************************************)
(* nodes.rs: Select.  select_literal* return Option<Key>, or panic.        *)
(***************************************************************************)
LitNone == [kind |-> "None"]
LitSome(key) == [kind |-> "Some", key |-> key]
LitPanic == [kind |-> "Panic"]

select_literal_single(self, context, candidate, variant_value) ==
  IF ~isinstance(context, candidate, self.selector.product) THEN LitNone
  ELSE IF variant_value # None
       THEN LET name == field_name(context, candidate)
            IN  IF name.kind = "Panic" THEN LitPanic
                ELSE IF name.key # variant_value[1] THEN LitNone
                ELSE LitSome(candidate)
       ELSE LitSome(candidate)

RECURSIVE select_literal_children(_, _, _, _)
select_literal_children(self, context, children, variant_value) ==
  IF children = <<>> THEN LitNone
  ELSE LET r == select_literal_single(self, context, Head(children), variant_value)
       IN  IF r.kind = "None"
           THEN select_literal_children(self, context, Tail(children), variant_value)
           ELSE r

select_literal(self, context, candidate, variant_value) ==
  LET single == select_literal_single(self, context, candidate, variant_value)
  IN  IF single.kind # "None" THEN single
      ELSE IF has_products(context, candidate)
           THEN LET children == field_products(context, candidate)
                IN  IF children.kind = "Panic" THEN LitPanic
                    ELSE select_literal_children(self, context, children.keys, variant_value)
           ELSE LitNone

\* find_variant taking the value of the last pair with the key.
RECURSIVE find_variant_last(_, _)
find_variant_last(variants, variant_key) ==
  IF variants = <<>> THEN None
  ELSE IF variants[Len(variants)][1] = variant_key THEN Some(variants[Len(variants)][2])
       ELSE find_variant_last(SubSeq(variants, 1, Len(variants) - 1), variant_key)

\* variants.iter().find(|(k, _)| k == variant_key).map(|(_, v)| v)
RECURSIVE find_variant(_, _)
find_variant(variants, variant_key) ==
  IF variants = <<>> THEN None
  ELSE IF Head(variants)[1] = variant_key THEN Some(Head(variants)[2])
       ELSE find_variant(Tail(variants), variant_key)

\* Select_finish waiting on the first unavailable dependency alone.
Select_finish_first(dependencies, matches) ==
  IF dependencies # <<>> THEN Waiting(<<Head(dependencies)>>)
  ELSE IF Len(matches) > 1
       THEN Complete(Throw("Conflicting values produced for subject and type."))
       ELSE IF matches # <<>>
            THEN Complete(Return(matches[Len(matches)]))
            ELSE Complete(Noop("No task was available to compute the value.", None))

\* The end of Select::step, after the loop over the candidate Task nodes.
Select_finish(dependencies, matches) ==
  IF dependencies # <<>> THEN Waiting(dependencies)
  ELSE IF Len(matches) > 1
       THEN Complete(Throw("Conflicting values produced for subject and type."))
       ELSE IF matches # <<>>
            THEN Complete(Return(matches[Len(matches)]))
            ELSE Complete(Noop("No task was available to compute the value.", None))

\* The loop of Select::step over gen_nodes.
RECURSIVE Select_loop(_, _, _, _, _, _)
Select_loop(self, context, variant_value, nodes, dependencies, matches) ==
  IF nodes = <<>> THEN Select_finish(dependencies, matches)
  ELSE LET dep_node == Head(nodes)
           c == get(context, dep_node)
       IN  IF c = None
           THEN Select_loop(self, context, variant_value, Tail(nodes),
                            Append(dependencies, dep_node), matches)
           ELSE IF c[1].kind = "Return"
           THEN LET v == select_literal(self, context, c[1].key, variant_value)
                IN  IF v.kind = "Panic" THEN Panic("TODO: Not implemented")
                    ELSE IF v.kind = "Some"
                         THEN Select_loop(self, context, variant_value, Tail(nodes),
                                          dependencies, Append(matches, v.key))
                         ELSE Select_loop(self, context, variant_value, Tail(nodes),
                                          dependencies, matches)
           ELSE IF c[1].kind = "Noop"
           THEN Select_loop(self, context, variant_value, Tail(nodes), dependencies, matches)
           ELSE Complete(Throw(c[1].msg))

\* Whether Select::step asks for the subject's default variants.
Select_wants_variants(self) ==
  /\ self.subject.type_id = type_address
  /\ self.selector.product # type_has_variants

Select_variants_node(self) ==
  Node_create(Selector_select(type_has_variants), self.subject, self.variants)

\* Select::step from the variant gate on, with the variants in scope.
Select_step_from_gate(self, context, variants) ==
  LET variant_value ==
        IF self.selector.variant_key # None
        THEN find_variant(variants, self.selector.variant_key[1])
        ELSE None
  IN  IF self.selector.variant_key # None /\ variant_value = None
      THEN Complete(Noop("A matching variant key was not configured in variants.", None))
      ELSE LET literal_value == select_literal(self, context, self.subject, variant_value)
           IN  IF literal_value.kind = "Panic" THEN Panic("TODO: Not implemented")
               ELSE IF literal_value.kind = "Some"
                    THEN Complete(Return(literal_value.key))
                    ELSE Select_loop(self, context, variant_value,
                                     gen_nodes(context, self.subject, self.selector.product,
                                               self.variants),
                                     <<>>, <<>>)

Select_step(self, context) ==
  IF Select_wants_variants(self)
  THEN LET c == get(context, Select_variants_node(self))
       IN  IF c = None THEN Waiting(<<Select_variants_node(self)>>)
           ELSE IF c[1].kind = "Return"
                THEN Panic("TODO: merging variants is not yet implemented")
           ELSE IF c[1].kind = "Throw" THEN Complete(Throw(c[1].msg))
           ELSE Select_step_from_gate(self, context, self.variants)
  ELSE Select_step_from_gate(self, context, self.variants)

SelectLiteral_step(self, context) == Complete(Return(self.selector.subject))

(***************************************************************************)
(* nodes.rs: SelectDependencies.                                           *)
(***************************************************************************)
\* The sub-select of SelectDependencies asking for product instead of dep_product.
SelectDependencies_dep_product_node_product(self) ==
  Node_create(Selector_select(self.selector.product), self.subject, self.variants)

SelectDependencies_dep_product_node(self) ==
  Node_create(Selector_select(self.selector.dep_product), self.subject, self.variants)

SelectDependencies_dep_node(self, dep_subject) ==
  Node_create(Selector_select(self.selector.product), dep_subject, self.variants)

\* The loop of SelectDependencies::step over project_multi(dep_product, field).
RECURSIVE SelectDependencies_loop(_, _, _, _, _)
SelectDependencies_loop(self, context, dep_subjects, dependencies, dep_values) ==
  IF dep_subjects = <<>>
  THEN IF Len(dependencies) > 0 THEN Waiting(dependencies)
       ELSE Complete(Return(store_list(context, dep_values)))
  ELSE LET dep_node == SelectDependencies_dep_node(self, Head(dep_subjects))
           c == get(context, dep_node)
       IN  IF c = None
           THEN SelectDependencies_loop(self, context, Tail(dep_subjects),
                                        Append(dependencies, dep_node), dep_values)
           ELSE IF c[1].kind = "Return"
           THEN SelectDependencies_loop(self, context, Tail(dep_subjects),
                                        dependencies, Append(dep_values, c[1].key))
           ELSE IF c[1].kind = "Noop"
           THEN Complete(Throw("No source of explicit dep " \o Node_format(dep_node)))
           ELSE Complete(Throw(c[1].msg))

\* The elements of a sequence without the repeated ones.
RECURSIVE DropRepeats(_)
DropRepeats(s) ==
  IF s = <<>> THEN <<>>
  ELSE LET front == DropRepeats(SubSeq(s, 1, Len(s) - 1))
           last == s[Len(s)]
       IN  IF \E i \in 1..Len(front) : front[i] = last THEN front ELSE Append(front, last)

\* SelectDependencies::step visiting each distinct dependency subject once.
SelectDependencies_step_distinct(self, context) ==
  LET dep_product_node == SelectDependencies_dep_product_node(self)
      c == get(context, dep_product_node)
  IN  IF c = None THEN Waiting(<<dep_product_node>>)
      ELSE IF c[1].kind = "Noop"
      THEN Complete(Noop("Could not compute {} to determine deps.", Some(dep_product_node)))
      ELSE IF c[1].kind = "Throw" THEN Complete(Throw(c[1].msg))
      ELSE SelectDependencies_loop(self, context,
                                   DropRepeats(project_multi(context, c[1].key,
                                                             self.selector.field)),
                                   <<>>, <<>>)

SelectDependencies_step(self, context) ==
  LET dep_product_node == SelectDependencies_dep_product_node(self)
      c == get(context, dep_product_node)
  IN  IF c = None THEN Waiting(<<dep_product_node>>)
      ELSE IF c[1].kind = "Noop"
      THEN Complete(Noop("Could not compute {} to determine deps.", Some(dep_product_node)))
      ELSE IF c[1].kind = "Throw" THEN Complete(Throw(c[1].msg))
      ELSE SelectDependencies_loop(self, context,
                                   project_multi(context, c[1].key, self.selector.field),
                                   <<>>, <<>>)

(***************************************************************************)
(* nodes.rs: ProjectField and SelectProjection.                            *)
(***************************************************************************)
ProjectField_input_node(self) ==
  Node_create(Selector_select(self.selector.input_product), self.subject, self.variants)

\* ProjectField::step waiting on its input whatever the map holds for it.
ProjectField_step_waiting(self, context) ==
  Waiting(<<ProjectField_input_node(self)>>)

ProjectField_step(self, context) ==
  LET input_node == ProjectField_input_node(self)
      c == get(context, input_node)
  IN  IF c = None THEN Waiting(<<input_node>>)
      ELSE IF c[1].kind = "Return"
      THEN RunnableState(project(context, c[1].key, self.selector.field))
      ELSE IF c[1].kind = "Noop"
      THEN Complete(Noop("Could not compute {} to project its field.", Some(input_node)))
      ELSE Complete(Throw(c[1].msg))

SelectProjection_input_node(self) ==
  ProjectFieldNode(self.subject, self.variants, self.selector)

\* The outer Select of SelectProjection taken on the node's own subject.
SelectProjection_output_node_own(self, projected_subject) ==
  Node_create(Selector_select(self.selector.product), self.subject, self.variants)

SelectProjection_output_node(self, projected_subject) ==
  Node_create(Selector_select(self.selector.product), projected_subject, self.variants)

SelectProjection_step(self, context) ==
  LET input_node == SelectProjection_input_node(self)
      c == get(context, input_node)
  IN  IF c = None THEN Waiting(<<input_node>>)
      ELSE IF c[1].kind = "Noop"
      THEN Complete(Noop("Could not compute {} to project its field.", Some(input_node)))
      ELSE IF c[1].kind = "Throw" THEN Complete(Throw(c[1].msg))
      ELSE LET output_node == SelectProjection_output_node(self, c[1].key)
               o == get(context, output_node)
           IN  IF o = None THEN Waiting(<<output_node>>)
               ELSE IF o[1].kind = "Return" THEN Complete(Return(o[1].key))
               ELSE IF o[1].kind = "Noop"
               THEN Complete(Throw("No source of projected dependency "
                                   \o Node_format(output_node)))
               ELSE Complete(Throw(o[1].msg))

(***************************************************************************)
(* nodes.rs: Task.                                                         *)
(***************************************************************************)
Task_dep_node(self, selector) == Node_create(selector, self.subject, self.variants)

\* The loop of Task::step over the clause.
RECURSIVE Task_loop(_, _, _, _, _)
Task_loop(self, context, selectors, dependencies, dep_values) ==
  IF selectors = <<>>
  THEN IF dependencies # <<>> THEN Waiting(dependencies)
       ELSE RunnableState(Runnable(self.selector.func,
                                   [i \in 1..Len(dep_values) |-> ArgValue(dep_values[i])],
                                   self.selector.cacheable))
  ELSE LET dep_node == Task_dep_node(self, Head(selectors))
           c == get(context, dep_node)
       IN  IF c = None
           THEN Task_loop(self, context, Tail(selectors),
                          Append(dependencies, dep_node), dep_values)
           ELSE IF c[1].kind = "Return"
           THEN Task_loop(self, context, Tail(selectors),
                          dependencies, Append(dep_values, c[1].key))
           ELSE IF c[1].kind = "Noop"
           THEN Complete(Noop("Was missing (at least) input {}.", Some(dep_node)))
           ELSE Complete(Throw(c[1].msg))

\* Task::step walking the clause from its last selector to its first.
Task_step_reversed(self, context) ==
  LET cl == self.selector.clause
  IN  Task_loop(self, context, [i \in 1..Len(cl) |-> cl[Len(cl) + 1 - i]], <<>>, <<>>)

\* Task::step waiting on its clause nodes whatever the map holds for them.
Task_step_waiting(self, context) ==
  Waiting([i \in 1..Len(self.selector.clause) |->
             Task_dep_node(self, self.selector.clause[i])])

Task_step(self, context) ==
  Task_loop(self, context, self.selector.clause, <<>>, <<>>)

(***************************************************************************)
(* nodes.rs: Node::step.                                                   *)
(***************************************************************************)
Node_step(self, deps_, tasks_) ==
  LET context == StepContext(deps_, tasks_)
  IN  CASE self.kind = "Select" -> Select_step(self, context)
        [] self.kind = "SelectDependencies" -> SelectDependencies_step(self, context)
        [] self.kind = "SelectLiteral" -> SelectLiteral_step(self, context)
        [] self.kind = "ProjectField" -> ProjectField_step(self, context)
        [] self.kind = "SelectProjection" -> SelectProjection_step(self, context)
        [] self.kind = "Task" -> Task_step(self, context)

(***************************************************************************)
(* The registration calls an embedder makes on one Tasks instance.         *)
(* ghost records the calls by their arguments, following the lifecycle     *)
(* documented above impl Tasks: task_add, add_* ..., task_end.             *)
(***************************************************************************)
NoNode == [kind |-> "NoNode"]
Unstepped == [kind |-> "Unstepped"]
EmptyMap == <<>>

GhostInit == [intrinsics |-> <<>>, ended |-> <<>>, current |-> None]

GhostBegin(g, func, product) ==
  IF g.current # None THEN g
  ELSE [g EXCEPT !.current = Some([func |-> func, product |-> product, sels |-> <<>>])]

GhostClause(g, selector) ==
  IF g.current = None THEN g
  ELSE [g EXCEPT !.current = Some([g.current[1] EXCEPT !.sels = Append(@, selector)])]

GhostEnd(g) ==
  IF g.current = None THEN g
  ELSE [g EXCEPT !.current = None, !.ended = Append(@, g.current[1])]

GhostIntrinsic(g, func, subject_type, product) ==
  [g EXCEPT !.intrinsics =
     Append(@, [func |-> func, subject_type |-> subject_type, product |-> product])]

RegProducts == {"P", "Q"}
RegSubjectTypes == {"Address", "Q"}

CanCall == ~registry.aborted /\ calls < MaxCalls

StepUnchanged == UNCHANGED <<node, deps, seen, out, sched, bridge>>

TaskAdd(func, product) ==
  /\ CanCall
  /\ registry' = task_add(registry, func, product)
  /\ ghost' = GhostBegin(ghost, func, product)
  /\ calls' = calls + 1
  /\ StepUnchanged

AddSelect(product, variant_key) ==
  /\ CanCall
  /\ registry' = add_select(registry, product, variant_key)
  /\ ghost' = GhostClause(ghost, Select(product, variant_key))
  /\ calls' = calls + 1
  /\ StepUnchanged

AddSelectDependencies(product, dep_product, field, transitive) ==
  /\ CanCall
  /\ registry' = add_select_dependencies(registry, product, dep_product, field, transitive)
  /\ ghost' = GhostClause(ghost, SelectDependencies(product, dep_product, field, transitive))
  /\ calls' = calls + 1
  /\ StepUnchanged

AddSelectProjection(product, projected_subject, field, input_product) ==
  /\ CanCall
  /\ registry' = add_select_projection(registry, product, projected_subject, field, input_product)
  /\ ghost' = GhostClause(ghost, SelectProjection(product, projected_subject, field, input_product))
  /\ calls' = calls + 1
  /\ StepUnchanged

AddSelectLiteral(subject, product) ==
  /\ CanCall
  /\ registry' = add_select_literal(registry, subject, product)
  /\ ghost' = GhostClause(ghost, SelectLiteral(subject, product))
  /\ calls' = calls + 1
  /\ StepUnchanged

TaskEnd ==
  /\ CanCall
  /\ registry' = task_end(registry)
  /\ ghost' = GhostEnd(ghost)
  /\ calls' = calls + 1
  /\ StepUnchanged

IntrinsicAdd(func, subject_type, product) ==
  /\ CanCall
  /\ registry' = intrinsic_add(registry, func, subject_type, product)
  /\ ghost' = GhostIntrinsic(ghost, func, subject_type, product)
  /\ calls' = calls + 1
  /\ StepUnchanged

InitTasks ==
  /\ registry = Tasks_new
  /\ ghost = GhostInit
  /\ calls = 0
  /\ node = NoNode
  /\ deps = EmptyMap
  /\ seen = EmptyMap
  /\ out = Unstepped
  /\ sched = EmptyMap
  /\ bridge = IsSubClassFunction_new

NextTasks ==
  \/ \E func \in {"f1", "f2"}, product \in RegProducts : TaskAdd(func, product)
  \/ \E variant_key \in {None, Some(vkA)} : AddSelect("Q", variant_key)
  \/ AddSelectDependencies("P", "Q", fDeps, FALSE)
  \/ AddSelectProjection("P", "Address", fProj, "Q")
  \/ AddSelectLiteral(kQ, "Q")
  \/ TaskEnd
  \/ \E subject_type \in RegSubjectTypes : IntrinsicAdd("fi", subject_type, "P")

SpecTasks == InitTasks /\ [][NextTasks]_vars

(***************************************************************************)
(* A caller of Node::step: it holds one node and a completion map for it,  *)
(* publishes completions of nodes the step may look up, and steps the node *)
(* again.  The registry was set up before and is frozen.                   *)
(***************************************************************************)
Range(s) == {s[i] : i \in DOMAIN s}

MapPut(m, k, v) == [x \in DOMAIN m \cup {k} |-> IF x = k THEN v ELSE m[x]]

\* A registry set up through the registration calls:
\*   P: f1 [Select(Q), Select(Q, vkA)] and f2 [];
\*   Q: f1 [SelectDependencies(P of Q.deps), SelectLiteral(kQ)], f2 [SelectProjection];
\*   intrinsic (Address, Q): fi.
StepRegistry ==
  LET a == task_end(add_select(add_select(task_add(Tasks_new, "f1", "P"),
                                          "Q", None), "Q", Some(vkA)))
      b == task_end(task_add(a, "f2", "P"))
      c == task_end(add_select_literal(
                      add_select_dependencies(task_add(b, "f1", "Q"),
                                              "P", "Q", fDeps, FALSE),
                      kQ, "Q"))
      d == task_end(add_select_projection(task_add(c, "f2", "Q"),
                                          "P", "Address", fProj, "Q"))
  IN  intrinsic_add(d, "fi", "Address", "Q")

StepRegistries == {Tasks_new, StepRegistry}

StepSubjects == {kAddr, kSubAddr, kSubP, kQ, kBag}

StepVariants == {<<>>, << <<vkB, vv1>>, <<vkA, vv1>>, <<vkA, vv2>> >>}

StepSelectors ==
  {Select("P", None), Select("P", Some(vkA)), Select("Q", None),
   Select(type_has_variants, None), Select(type_address, None),
   SelectDependencies("P", "Q", fDeps, FALSE),
   SelectProjection("P", "Address", fProj, "Q"),
   SelectLiteral(kQ, "Q")}

RulesOf(t) ==
  UNION {Range(t.tasks[k]) : k \in DOMAIN t.tasks}
    \cup UNION {Range(t.intrinsics[k]) : k \in DOMAIN t.intrinsics}

StepNodes(t) ==
  {Node_create(s, k, v) : s \in StepSelectors, k \in StepSubjects, v \in StepVariants}
    \cup {ProjectFieldNode(k, v, SelectProjection("P", "Address", fProj, "Q")) :
            k \in StepSubjects, v \in StepVariants}
    \cup {Node_create(r, k, v) : r \in RulesOf(t), k \in StepSubjects, v \in StepVariants}

\* What a completed dependency may hold.
StepCompletes ==
  {Return(k) : k \in {kP, kSubP, kQ, kBag}}
    \cup {Noop("No task was available to compute the value.", None)}
    \cup {Throw("m1"), Throw("m2")}

\* Every node a step of n may look up, at any of its stages, given the map.
Requestable(n, context) ==
  CASE n.kind = "Select" ->
         (IF Select_wants_variants(n) THEN {Select_variants_node(n)} ELSE {})
           \cup Range(gen_nodes(context, n.subject, n.selector.product, n.variants))
    [] n.kind = "SelectDependencies" ->
         LET c == get(context, SelectDependencies_dep_product_node(n))
         IN  {SelectDependencies_dep_product_node(n)}
               \cup (IF c # None /\ c[1].kind = "Return"
                     THEN {SelectDependencies_dep_node(n, k) :
                             k \in Range(project_multi(context, c[1].key, n.selector.field))}
                     ELSE {})
    [] n.kind = "ProjectField" -> {ProjectField_input_node(n)}
    [] n.kind = "SelectProjection" ->
         LET c == get(context, SelectProjection_input_node(n))
         IN  {SelectProjection_input_node(n)}
               \cup (IF c # None /\ c[1].kind = "Return"
                     THEN {SelectProjection_output_node(n, c[1].key)}
                     ELSE {})
    [] n.kind = "Task" -> {Task_dep_node(n, n.selector.clause[i]) :
                             i \in 1..Len(n.selector.clause)}
    [] OTHER -> {}

RegUnchanged == UNCHANGED <<registry, ghost, calls, bridge>>

Step ==
  /\ node # NoNode
  /\ out = Unstepped \/ seen # deps
  /\ out' = Node_step(node, deps, registry)
  /\ seen' = deps
  /\ RegUnchanged
  /\ UNCHANGED <<node, deps, sched>>

Publish(d, c) ==
  /\ node # NoNode
  /\ d \notin DOMAIN deps
  /\ deps' = MapPut(deps, d, c)
  /\ RegUnchanged
  /\ UNCHANGED <<node, seen, out, sched>>

InitStep ==
  /\ registry \in StepRegistries
  /\ ghost = GhostInit
  /\ calls = 0
  /\ node \in StepNodes(registry)
  /\ deps = EmptyMap
  /\ seen = EmptyMap
  /\ out = Unstepped
  /\ sched = EmptyMap
  /\ bridge = IsSubClassFunction_new

NextStep ==
  \/ Step
  \/ \E d \in Requestable(node, StepContext(deps, registry)), c \in StepCompletes :
       Publish(d, c)

SpecStep == InitStep /\ [][NextStep]_vars

(***************************************************************************)
(* The scheduler around the core, as the design document states its        *)
(* contract: it steps a requested node first from Unseen, steps a Waiting   *)
(* node again only after one of the nodes it waits on completed, hands the  *)
(* step the completions it holds, records Complete as Done, and dispatches  *)
(* a Runnable to the host once, recording the host's result as the node's  *)
(* Complete.  Two runs of it work on the same registry and root, each in    *)
(* its own order.                                                          *)
(***************************************************************************)
Runs == {1, 2}

\* The deterministic host executing a Runnable.
HostCall(runnable) ==
  CASE runnable.func = "project" -> Return(kAddr)
    [] runnable.func = "f1" -> Return(kP)
    [] runnable.func = "f2" -> Return(kSubP)
    [] runnable.func = "fi" -> Return(kQ)
    [] OTHER -> Throw("host: " \o runnable.func \o " raised")

\* P: f1 [Select(Q), Select(Bag)];  Bag: fthrow [];  intrinsic (Address, Q): fi.
SchedRegistry ==
  LET a == task_end(add_select(add_select(task_add(Tasks_new, "f1", "P"),
                                          "Q", None), "Bag", None))
      b == task_end(task_add(a, "fthrow", "Bag"))
  IN  intrinsic_add(b, "fi", "Address", "Q")

\* P: f1 [Select(P)]: a rule whose clause selects its own product.
CycleRegistry ==
  task_end(add_select(task_add(Tasks_new, "f1", "P"), "P", None))

SchedRegistries == {SchedRegistry, CycleRegistry}

SchedRoots ==
  {Node_create(Select("P", None), k, <<>>) : k \in {kSubAddr, kAddr, kQ}}
    \cup {Node_create(SelectProjection("P", "Address", fProj, "Q"), kQ, <<>>)}

UnseenEntry == [status |-> "Unseen"]
WaitingEntry(nodes) == [status |-> "Waiting", nodes |-> nodes]
ReadyEntry(runnable) == [status |-> "Ready", runnable |-> runnable]
DoneEntry(c) == [status |-> "Done", complete |-> c]

\* The completions a run holds.
Completions(table) ==
  [d \in {x \in DOMAIN table : table[x].status = "Done"} |-> table[d].complete]

\* A scheduler that steps a node whatever state it recorded for it.
CanStep_always(table, n) == TRUE

\* A node may be stepped when Unseen, or when Waiting and a node it waits on is Done.
CanStep(table, n) ==
  \/ table[n].status = "Unseen"
  \/ /\ table[n].status = "Waiting"
     /\ \E d \in Range(table[n].nodes) : table[d].status = "Done"

\* Requested nodes enter the table Unseen.
Request(table, nodes) ==
  [x \in DOMAIN table \cup Range(nodes) |->
     IF x \in DOMAIN table THEN table[x] ELSE UnseenEntry]

\* What the scheduler records for n after its step returned state.
Record(run, n, state) ==
  CASE state.kind = "Waiting" ->
         [run EXCEPT !.table = [Request(run.table, state.nodes) EXCEPT
                                  ![n] = WaitingEntry(state.nodes)]]
    [] state.kind = "Runnable" ->
         [run EXCEPT !.table = [run.table EXCEPT ![n] = ReadyEntry(state.runnable)]]
    [] state.kind = "Complete" ->
         [run EXCEPT !.table = [run.table EXCEPT ![n] = DoneEntry(state.complete)]]
    [] OTHER -> [run EXCEPT !.crashed = TRUE]

SchedStep(r, n) ==
  /\ ~sched[r].crashed
  /\ CanStep(sched[r].table, n)
  /\ sched' = [sched EXCEPT ![r] =
                 Record(sched[r], n, Node_step(n, Completions(sched[r].table), registry))]
  /\ RegUnchanged
  /\ UNCHANGED <<node, deps, seen, out>>

SchedDispatch(r, n) ==
  /\ ~sched[r].crashed
  /\ sched[r].table[n].status = "Ready"
  /\ sched' = [sched EXCEPT ![r].table[n] = DoneEntry(HostCall(sched[r].table[n].runnable))]
  /\ RegUnchanged
  /\ UNCHANGED <<node, deps, seen, out>>

InitSched ==
  /\ registry \in SchedRegistries
  /\ ghost = GhostInit
  /\ calls = 0
  /\ node \in SchedRoots
  /\ deps = EmptyMap
  /\ seen = EmptyMap
  /\ out = Unstepped
  /\ sched = [r \in Runs |-> [table |-> [x \in {node} |-> UnseenEntry], crashed |-> FALSE]]
  /\ bridge = IsSubClassFunction_new

NextSched ==
  \/ \E r \in DOMAIN sched : \E n \in DOMAIN sched[r].table : SchedStep(r, n)
  \/ \E r \in DOMAIN sched : \E n \in DOMAIN sched[r].table : SchedDispatch(r, n)

SpecSched == InitSched /\ [][NextSched]_vars

(***************************************************************************)
(* Properties of the registry.                                             *)
(***************************************************************************)
\* The rule a completed task_add / add_* / task_end sequence describes.
BuilderRule(c) ==
  [kind |-> "Task", cacheable |-> TRUE, product |-> c.product, clause |-> c.sels,
   func |-> c.func]

EndedFor(product) ==
  LET keep(c) == c.product = product
      cs == SelectSeq(ghost.ended, keep)
  IN  [i \in 1..Len(cs) |-> BuilderRule(cs[i])]

IntrinsicCallsFor(subject_type, product) ==
  LET keep(c) == c.subject_type = subject_type /\ c.product = product
  IN  SelectSeq(ghost.intrinsics, keep)

FuncsOf(rules) == [i \in 1..Len(rules) |-> rules[i].func]

TasksOf(t, product) == IF product \in DOMAIN t.tasks THEN t.tasks[product] ELSE <<>>

LookupTypes == {"Address", "Q", "P"}

\* C8: after any sequence of registrations gen_tasks(T, P) is exactly the list
\* stored in intrinsics[(T, P)] when intrinsic_add(_, T, P) was ever called (the
\* funcs of those calls, in call order, and nothing else), otherwise exactly the
\* list stored in tasks[P] when a builder rule for P was ended (their funcs, in
\* order), otherwise nothing; rules of the two mappings are never mixed, and an
\* intrinsic for (T, P) leaves the lookup of other subject types alone.
C8_RegistryLookup ==
  ~registry.aborted =>
    \A T \in LookupTypes, P \in RegProducts :
      LET got == gen_tasks(registry, T, P)
          ic == IntrinsicCallsFor(T, P)
          bs == EndedFor(P)
      IN  IF ic # <<>>
          THEN /\ got = Some(registry.intrinsics[<<T, P>>])
               /\ FuncsOf(got[1]) = FuncsOf(ic)
               /\ \A i \in 1..Len(got[1]) : ~got[1][i].cacheable
          ELSE IF bs # <<>>
          THEN /\ got = Some(registry.tasks[P])
               /\ got[1] = bs
          ELSE got = None

\* C8 witness: an intrinsic for (Address, P) hides a builder rule for P from
\* Address subjects while subjects of type Q still get the builder rule.
C8_Witness ==
  /\ ~registry.aborted
  /\ IntrinsicCallsFor("Address", "P") # <<>>
  /\ IntrinsicCallsFor("Q", "P") = <<>>
  /\ EndedFor("P") # <<>>
  /\ gen_tasks(registry, "Address", "P") # gen_tasks(registry, "Q", "P")

\* C9: a completed task_add(func, product), add_* (s1..sn), task_end sequence
\* leaves tasks[product] with exactly one more rule {product, [s1..sn], func,
\* cacheable}, after the rules registered before it; the preparing slot is empty
\* exactly when no rule is under construction; other products and the intrinsics
\* are untouched; the rule under construction is in no tasks list before task_end.
C9_BuilderRegistration ==
  ~registry.aborted =>
    /\ \A P \in RegProducts : TasksOf(registry, P) = EndedFor(P)
    /\ DOMAIN registry.tasks \subseteq RegProducts
    /\ (registry.preparing = None) <=> (ghost.current = None)
    /\ ghost.current # None => registry.preparing = Some(BuilderRule(ghost.current[1]))
    /\ \A T \in RegSubjectTypes, P \in RegProducts :
         Len(IntrinsicCallsFor(T, P)) =
           (IF <<T, P>> \in DOMAIN registry.intrinsics
            THEN Len(registry.intrinsics[<<T, P>>]) ELSE 0)

\* C9 witness: a second rule for P, with a two-selector clause, has been ended
\* after an earlier rule for P.
C9_Witness ==
  /\ ~registry.aborted
  /\ registry.preparing = None
  /\ Len(TasksOf(registry, "P")) = 2
  /\ Len(registry.tasks["P"][2].clause) = 2
  /\ registry.tasks["P"][2].clause[1] # registry.tasks["P"][2].clause[2]

NoDuplicates(s) == \A i, j \in 1..Len(s) : i # j => s[i] # s[j]

\* C10: task_end aborts when a rule equal to the prepared one is already
\* registered under its product, and no tasks[product] list ever holds two equal
\* rules.
C10_DoubleRegistrationAborts ==
  /\ \A P \in DOMAIN registry.tasks : NoDuplicates(registry.tasks[P])
  /\ ~NoDuplicates(ghost.ended) => registry.aborted

\* C10 witness: an equal rule was ended twice, and the second task_end aborted.
C10_Witness ==
  /\ registry.aborted
  /\ ~NoDuplicates(ghost.ended)
  /\ \E P \in DOMAIN registry.tasks : Len(registry.tasks[P]) = 1

(***************************************************************************)
(* Properties of Node::step, over the node and the map of its last call.   *)
(***************************************************************************)
Returned(state) == state.kind \in {"Waiting", "Runnable", "Complete"}

\* The dependencies a step of n depends on at the stage the map puts it in, in
\* the order the step visits them.
StageDeps(n, context) ==
  CASE n.kind = "Select" ->
         LET c == get(context, Select_variants_node(n))
             variant_value ==
               IF n.selector.variant_key # None
               THEN find_variant(n.variants, n.selector.variant_key[1])
               ELSE None
         IN  IF Select_wants_variants(n) /\ (c = None \/ c[1].kind # "Noop")
             THEN <<Select_variants_node(n)>>
             ELSE IF n.selector.variant_key # None /\ variant_value = None THEN <<>>
             ELSE IF select_literal(n, context, n.subject, variant_value).kind # "None"
                  THEN <<>>
             ELSE gen_nodes(context, n.subject, n.selector.product, n.variants)
    [] n.kind = "SelectDependencies" ->
         LET c == get(context, SelectDependencies_dep_product_node(n))
         IN  IF c = None \/ c[1].kind # "Return"
             THEN <<SelectDependencies_dep_product_node(n)>>
             ELSE LET ks == project_multi(context, c[1].key, n.selector.field)
                  IN  [i \in 1..Len(ks) |-> SelectDependencies_dep_node(n, ks[i])]
    [] n.kind = "ProjectField" -> <<ProjectField_input_node(n)>>
    [] n.kind = "SelectProjection" ->
         LET c == get(context, SelectProjection_input_node(n))
         IN  IF c = None \/ c[1].kind # "Return"
             THEN <<SelectProjection_input_node(n)>>
             ELSE <<SelectProjection_output_node(n, c[1].key)>>
    [] n.kind = "Task" ->
         [i \in 1..Len(n.selector.clause) |-> Task_dep_node(n, n.selector.clause[i])]
    [] OTHER -> <<>>

SeenContext == StepContext(seen, registry)
SeenStageDeps == StageDeps(node, SeenContext)
SeenThrows == {d \in Range(SeenStageDeps) : d \in DOMAIN seen /\ seen[d].kind = "Throw"}
SeenMissing == {d \in Range(SeenStageDeps) : d \notin DOMAIN seen}

\* C1: if a dependency of the step's current stage maps to Throw(m), a step that
\* returns is Complete(Throw(m)), m unchanged (with several throwing
\* dependencies, the message of one of them), whatever the other dependencies
\* are and wherever they stand.
C1_ThrowPropagation ==
  (Returned(out) /\ SeenThrows # {}) =>
    \E d \in SeenThrows : out = Complete(Throw(seen[d].msg))

\* C2: Node::step is total: every call returns Waiting, Runnable or Complete.
C2_StepTotal == out # Unstepped => Returned(out)

\* C4 as stated, for the steps that return: while a dependency of the current
\* stage is missing the step is Waiting(D) with every missing one in D, never
\* Complete or Runnable.
C4_GatherAllMissing_AsStated ==
  (Returned(out) /\ SeenMissing # {}) =>
    /\ out.kind = "Waiting"
    /\ SeenMissing \subseteq Range(out.nodes)

\* A completed dependency that ends the step at once: a Throw for every kind, a
\* Noop among a Task's clause nodes or a SelectDependencies' per-element Selects.
ShortCircuits(d) ==
  /\ d \in DOMAIN seen
  /\ \/ seen[d].kind = "Throw"
     \/ seen[d].kind = "Noop" /\ node.kind \in {"Task", "SelectDependencies"}

\* C4, amended: a returned Waiting(D) lists exactly the dependencies of the
\* current stage that are missing from the map, in visiting order; a step never
\* returns Runnable while one is missing; it returns Complete while one is
\* missing only when a completed dependency of the stage short-circuits it, and
\* whenever none does the returned state is Waiting.
C4_GatherMissing ==
  Returned(out) =>
    LET missing(d) == d \notin DOMAIN seen
        short == \E d \in Range(SeenStageDeps) : ShortCircuits(d)
    IN  /\ out.kind = "Waiting" => out.nodes = SelectSeq(SeenStageDeps, missing)
        /\ out.kind = "Waiting" => out.nodes # <<>>
        /\ out.kind = "Runnable" => SeenMissing = {}
        /\ (out.kind = "Complete" /\ SeenMissing # {}) => short
        /\ (SeenMissing # {} /\ ~short) => out.kind = "Waiting"

\* C4 witness: after an earlier stage completed, a step returned Waiting on the
\* two missing dependencies of its current stage, both listed.
C4_Witness ==
  /\ out.kind = "Waiting"
  /\ Len(out.nodes) = 2
  /\ out.nodes[1] # out.nodes[2]
  /\ SeenMissing = Range(out.nodes)
  /\ DOMAIN seen # {}

Restrict(m, S) == [x \in S |-> m[x]]

\* C5: if step(N, M) = Waiting(D) and M' extends M by completions of nodes of D,
\* step(N, M') is Runnable, Complete, or Waiting(D') with D' holding every node
\* of D that M' leaves incomplete.
C5_MonotonicDependencies ==
  out # Unstepped =>
    \A S \in SUBSET DOMAIN seen :
      LET before == Node_step(node, Restrict(seen, S), registry)
      IN  (before.kind = "Waiting" /\ (DOMAIN seen \ S) \subseteq Range(before.nodes)) =>
            \/ out.kind \in {"Runnable", "Complete"}
            \/ /\ out.kind = "Waiting"
               /\ \A d \in Range(before.nodes) : d \notin DOMAIN seen => d \in Range(out.nodes)

\* The candidate Task nodes of a Select in its task match, and the values they
\* Returned that the literal and variant test lets through.
SelectCandidates == gen_nodes(SeenContext, node.subject, node.selector.product, node.variants)

SelectPassed ==
  LET vv == IF node.selector.variant_key # None
            THEN find_variant(node.variants, node.selector.variant_key[1])
            ELSE None
      passes(n) == /\ seen[n].kind = "Return"
                   /\ select_literal(node, SeenContext, seen[n].key, vv).kind = "Some"
      through == SelectSeq(SelectCandidates, passes)
  IN  [i \in 1..Len(through) |-> seen[through[i]].key]

\* C7: in a Select's task match, once no candidate Task node is missing and none
\* is Throw, the step is Complete(Throw) when more than one candidate's value
\* passed the literal and variant test, Complete(Return(v)) when exactly one
\* value v passed, and Complete(Noop) when none passed.
C7_SelectConflictDetection ==
  (/\ out # Unstepped
   /\ node.kind = "Select"
   /\ SeenStageDeps = SelectCandidates
   /\ SelectCandidates # <<>>
   /\ \A d \in Range(SelectCandidates) : d \in DOMAIN seen /\ seen[d].kind # "Throw") =>
    /\ out.kind = "Complete"
    /\ Len(SelectPassed) > 1 => out.complete.kind = "Throw"
    /\ Len(SelectPassed) = 1 => out.complete = Return(SelectPassed[1])
    /\ Len(SelectPassed) = 0 => out.complete.kind = "Noop"

(***************************************************************************)
(* Properties of the scheduler driving Node::step.                         *)
(***************************************************************************)
\* C3: for a fixed registry, deterministic host and root, a node ends with the
\* same Complete under every scheduler order: whatever two runs did, a node
\* that is Done in both holds the same Complete in both.
C3_ScheduleIndependence ==
  \A n \in DOMAIN sched[1].table \cap DOMAIN sched[2].table :
    (sched[1].table[n].status = "Done" /\ sched[2].table[n].status = "Done") =>
      sched[1].table[n].complete = sched[2].table[n].complete

LifecycleMoves ==
  {<<"Unseen", "Waiting">>, <<"Unseen", "Ready">>, <<"Unseen", "Done">>,
   <<"Waiting", "Waiting">>, <<"Waiting", "Ready">>, <<"Waiting", "Done">>,
   <<"Ready", "Done">>}

\* C6: under the scheduler's contract every node makes only the moves
\* Unseen -> {Waiting, Ready, Done}, Waiting -> {Waiting, Ready, Done},
\* Ready -> Done; a node never leaves the table; a Done node's entry, and with it
\* its recorded Complete, never changes again, so no later step or dispatch of it
\* takes effect.
C6_NodeLifecycle ==
  [][\A r \in Runs : \A n \in DOMAIN sched[r].table :
       /\ n \in DOMAIN sched'[r].table
       /\ sched'[r].table[n] # sched[r].table[n] =>
            <<sched[r].table[n].status, sched'[r].table[n].status>> \in LifecycleMoves
       /\ sched[r].table[n].status = "Done" => sched'[r].table[n] = sched[r].table[n]]_vars

\* C6 witness: in one run a node went through Ready and is Done with the host's
\* result, and a node that waited is Done too.
C6_Witness ==
  \E r \in Runs : \E n, m \in DOMAIN sched[r].table :
    /\ n.kind = "Task"
    /\ sched[r].table[n].status = "Done"
    /\ sched[r].table[n].complete = HostCall(Runnable(n.selector.func, <<>>, TRUE))
    /\ sched[r].table[n].complete.kind = "Return"
    /\ m.kind = "Select"
    /\ m # node
    /\ sched[r].table[m].status = "Done"
    /\ sched[r].table[node].status = "Done"

(***************************************************************************)
(* Further properties of the registry.                                     *)
(***************************************************************************)
RuleShape ==
  /\ \A P \in DOMAIN registry.tasks : \A i \in 1..Len(registry.tasks[P]) :
       /\ registry.tasks[P][i].product = P
       /\ registry.tasks[P][i].cacheable
  /\ \A k \in DOMAIN registry.intrinsics : \A i \in 1..Len(registry.intrinsics[k]) :
       /\ registry.intrinsics[k][i].product = k[2]
       /\ ~registry.intrinsics[k][i].cacheable
       /\ registry.intrinsics[k][i].clause = <<Select(k[1], None)>>

SeenDepProduct == get(SeenContext, SelectDependencies_dep_product_node(node))

SeenDepNodes ==
  LET ks == project_multi(SeenContext, SeenDepProduct[1].key, node.selector.field)
  IN  [i \in 1..Len(ks) |-> SelectDependencies_dep_node(node, ks[i])]

\* C12: when the dep_product Select Returned d and project_multi(d, field) is
\* [k1..kn]: if the Select{product} on every ki Returned vi the step is
\* Complete(Return(store_list([v1..vn]))), one element per ki in field order,
\* repeated subjects kept; if some are missing and none is Noop or Throw the
\* step is Waiting on the missing ones, in field order.
C12_DependenciesOrder ==
  (/\ out # Unstepped
   /\ node.kind = "SelectDependencies"
   /\ SeenDepProduct # None
   /\ SeenDepProduct[1].kind = "Return") =>
     LET ns == SeenDepNodes
         missing(d) == d \notin DOMAIN seen
     IN  /\ (\A i \in 1..Len(ns) : ns[i] \in DOMAIN seen /\ seen[ns[i]].kind = "Return") =>
              out = Complete(Return(HostStoreList([i \in 1..Len(ns) |-> seen[ns[i]].key])))
         /\ (/\ \E i \in 1..Len(ns) : missing(ns[i])
             /\ \A i \in 1..Len(ns) : ~missing(ns[i]) => seen[ns[i]].kind = "Return") =>
              out = Waiting(SelectSeq(ns, missing))

\* C12 witness: a field with a repeated subject, [k1, k2, k1], whose Selects
\* Returned a and b # a, completed with the list [a, b, a].
C12_Witness ==
  /\ node.kind = "SelectDependencies"
  /\ \E a, b \in {kP, kSubP, kQ, kBag} :
       /\ a # b
       /\ out = Complete(Return(HostStoreList(<<a, b, a>>)))

\* The Select{dep_product} sub-select of the stepped node: no variant key, same
\* subject and variants.
DepProductSelect ==
  SelectNode(node.subject, node.variants, Select(node.selector.dep_product, None))

\* The per-element Select{product} nodes of the stepped node that the last map
\* holds as Noop, resp. the positions holding a Noop or a Throw.
SeenNoopElements ==
  {i \in 1..Len(SeenDepNodes) :
     SeenDepNodes[i] \in DOMAIN seen /\ seen[SeenDepNodes[i]].kind = "Noop"}

SeenFailedElements ==
  {i \in 1..Len(SeenDepNodes) :
     SeenDepNodes[i] \in DOMAIN seen /\ seen[SeenDepNodes[i]].kind \in {"Noop", "Throw"}}

FirstOf(S) == CHOOSE i \in S : \A j \in S : i <= j

NoSourceOfExplicitDep(n) == Throw("No source of explicit dep " \o Node_format(n))

\* C13 as stated: a missing dep_product sub-select gives Waiting on it alone, a
\* Noop one gives Complete(Noop), and a Noop per-dependency Select always gives
\* Complete(Throw(no source of explicit dep ...)).
C13_DependenciesNoop_AsStated ==
  (out # Unstepped /\ node.kind = "SelectDependencies") =>
    /\ DepProductSelect \notin DOMAIN seen => out = Waiting(<<DepProductSelect>>)
    /\ (DepProductSelect \in DOMAIN seen /\ seen[DepProductSelect].kind = "Noop") =>
         out.kind = "Complete" /\ out.complete.kind = "Noop"
    /\ (/\ DepProductSelect \in DOMAIN seen
        /\ seen[DepProductSelect].kind = "Return"
        /\ SeenNoopElements # {}) =>
         \E i \in SeenNoopElements : out = Complete(NoSourceOfExplicitDep(SeenDepNodes[i]))

\* C13, amended: a missing dep_product sub-select gives Waiting on it alone; a
\* Noop one gives Complete(Noop) blaming it; when a per-dependency Select is
\* Noop the step is Complete(Throw), never Noop, Return or Waiting: the Throw is
\* "no source of explicit dep" for the first Noop element in field order, unless
\* an element before it completed Throw(m), and then it is Throw(m).
C13_DependenciesNoop ==
  (out # Unstepped /\ node.kind = "SelectDependencies") =>
    /\ DepProductSelect \notin DOMAIN seen => out = Waiting(<<DepProductSelect>>)
    /\ (DepProductSelect \in DOMAIN seen /\ seen[DepProductSelect].kind = "Noop") =>
         /\ out.kind = "Complete"
         /\ out.complete.kind = "Noop"
         /\ out.complete.cause = Some(DepProductSelect)
    /\ (/\ DepProductSelect \in DOMAIN seen
        /\ seen[DepProductSelect].kind = "Return"
        /\ SeenNoopElements # {}) =>
         LET first == SeenDepNodes[FirstOf(SeenFailedElements)]
         IN  out = Complete(IF seen[first].kind = "Noop"
                            THEN NoSourceOfExplicitDep(first)
                            ELSE Throw(seen[first].msg))

\* C13 witness: a per-dependency Select is Noop while an earlier one is still
\* missing, and the step completed with the "no source" Throw.
C13_Witness ==
  /\ node.kind = "SelectDependencies"
  /\ DepProductSelect \in DOMAIN seen
  /\ seen[DepProductSelect].kind = "Return"
  /\ SeenNoopElements # {}
  /\ \E i \in 1..Len(SeenDepNodes) : SeenDepNodes[i] \notin DOMAIN seen
  /\ out = Complete(NoSourceOfExplicitDep(SeenDepNodes[FirstOf(SeenNoopElements)]))

(***************************************************************************)
(* Properties of Select::step.                                             *)
(***************************************************************************)
\* The positions of the pairs of the stepped node's variants that have key k.
VariantPositions(k) == {i \in 1..Len(node.variants) : node.variants[i][1] = k}

VariantKeyNotConfigured ==
  Complete(Noop("A matching variant key was not configured in variants.", None))

\* The step got past the has-variants sub-select: the sub-select is not asked
\* for, or the last map holds it as Noop.
PastVariantsSubSelect ==
  \/ ~Select_wants_variants(node)
  \/ /\ Select_variants_node(node) \in DOMAIN seen
     /\ seen[Select_variants_node(node)].kind = "Noop"

\* C14 as stated: a Select with variant_key = Some(k) whose variants have no
\* pair with key k steps to Complete(Noop(variant key not configured)).
C14_VariantGate_AsStated ==
  (/\ out # Unstepped
   /\ node.kind = "Select"
   /\ node.selector.variant_key # None
   /\ VariantPositions(node.selector.variant_key[1]) = {}) =>
     out = VariantKeyNotConfigured

\* C14, amended: for a Select with variant_key = Some(k) whose has-variants
\* sub-select is not required or completed Noop, if no pair of the variants has
\* key k the step is Complete(Noop(variant key not configured)) whatever the
\* map holds for the candidate Task nodes; while the sub-select is required and
\* missing the step is Waiting on it alone, and if it completed Throw(m) the
\* step is Complete(Throw(m)).  If several pairs have key k the required variant
\* value is the value of the first.
C14_VariantGate ==
  (/\ out # Unstepped
   /\ node.kind = "Select"
   /\ node.selector.variant_key # None) =>
     LET k == node.selector.variant_key[1]
         sub == Select_variants_node(node)
     IN  /\ (VariantPositions(k) = {} /\ PastVariantsSubSelect) =>
              out = VariantKeyNotConfigured
         /\ (Select_wants_variants(node) /\ sub \notin DOMAIN seen) =>
              out = Waiting(<<sub>>)
         /\ (Select_wants_variants(node) /\ sub \in DOMAIN seen /\ seen[sub].kind = "Throw") =>
              out = Complete(Throw(seen[sub].msg))
         /\ VariantPositions(k) # {} =>
              find_variant(node.variants, k) = Some(node.variants[FirstOf(VariantPositions(k))][2])
         /\ VariantPositions(k) = {} => find_variant(node.variants, k) = None

\* C14 witness: the key is not configured, a candidate Task of the Select is
\* Throw in the map, and the step completed with the variant-key Noop.
C14_Witness ==
  /\ node.kind = "Select"
  /\ node.selector.variant_key # None
  /\ VariantPositions(node.selector.variant_key[1]) = {}
  /\ \E d \in Range(SelectCandidates) : d \in DOMAIN seen /\ seen[d].kind = "Throw"
  /\ out = VariantKeyNotConfigured

\* C14 witness of the duplicate key: a Select stepped with two pairs under its
\* variant key, holding different values.
C14_WitnessDuplicate ==
  /\ out # Unstepped
  /\ node.kind = "Select"
  /\ node.selector.variant_key # None
  /\ \E i, j \in VariantPositions(node.selector.variant_key[1]) :
       node.variants[i][2] # node.variants[j][2]

\* The subject's type satisfies the product: equal, or a subclass on the host.
SubjectSatisfiesProduct ==
  \/ node.subject.type_id = node.selector.product
  \/ HostIsSubclass(node.subject.type_id, node.selector.product)

\* C15: a Select with no variant key whose subject's type satisfies the product,
\* and whose has-variants sub-select is not required or completed Noop, steps to
\* Complete(Return(subject)) for every completion map and every registry: the
\* rules registered for the product do not make it Waiting, Noop or Throw.
C15_LiteralIsA ==
  (/\ out # Unstepped
   /\ node.kind = "Select"
   /\ node.selector.variant_key = None
   /\ SubjectSatisfiesProduct
   /\ PastVariantsSubSelect) =>
     out = Complete(Return(node.subject))

\* C15 witness: the subject is a subclass instance of the product, rules are
\* registered for the product, one of their Task nodes is Throw in the map, and
\* the step Returned the subject.
C15_Witness ==
  /\ node.kind = "Select"
  /\ node.selector.variant_key = None
  /\ node.subject.type_id # node.selector.product
  /\ SubjectSatisfiesProduct
  /\ \E d \in Range(SelectCandidates) : d \in DOMAIN seen /\ seen[d].kind = "Throw"
  /\ out = Complete(Return(node.subject))

\* C15 witness of the sub-select: an Address subject selected as an Address
\* after its has-variants sub-select completed Noop.
C15_WitnessAfterVariants ==
  /\ node.kind = "Select"
  /\ Select_wants_variants(node)
  /\ SubjectSatisfiesProduct
  /\ PastVariantsSubSelect
  /\ out = Complete(Return(node.subject))

(***************************************************************************)
(* Properties of Task::step.                                               *)
(***************************************************************************)
\* The clause nodes of the stepped Task, one per clause selector, in order.
ClauseNodes ==
  [i \in 1..Len(node.selector.clause) |->
     Node_create(node.selector.clause[i], node.subject, node.variants)]

\* C16: when every clause node of a Task has a Return in the map the step is
\* Runnable{func of the rule, one Value arg per clause selector holding the
\* Returned key, in clause order, cacheable of the rule}; with an empty clause
\* that is the first step, with no args; a Task step is never Complete(Return).
C16_TaskReadiness ==
  (out # Unstepped /\ node.kind = "Task") =>
    /\ (\A i \in 1..Len(ClauseNodes) :
          ClauseNodes[i] \in DOMAIN seen /\ seen[ClauseNodes[i]].kind = "Return") =>
         out = RunnableState(
                 [func |-> node.selector.func,
                  args |-> [i \in 1..Len(ClauseNodes) |->
                              [kind |-> "Value", key |-> seen[ClauseNodes[i]].key]],
                  cacheable |-> node.selector.cacheable])
    /\ node.selector.clause = <<>> =>
         /\ out.kind = "Runnable"
         /\ out.runnable.args = <<>>
    /\ ~(out.kind = "Complete" /\ out.complete.kind = "Return")

\* C16 witness: a Task with two clause selectors became Runnable with the two
\* Returned keys, which differ, as its args.
C16_Witness ==
  /\ node.kind = "Task"
  /\ out.kind = "Runnable"
  /\ Len(out.runnable.args) = 2
  /\ out.runnable.args[1] # out.runnable.args[2]
  /\ out.runnable.func = node.selector.func

\* C16 witness of the flags: a rule that is not cacheable became Runnable.
C16_WitnessIntrinsic ==
  /\ node.kind = "Task"
  /\ out.kind = "Runnable"
  /\ ~out.runnable.cacheable
  /\ Len(out.runnable.args) = 1

(***************************************************************************)
(* Properties of SelectProjection::step.                                   *)
(***************************************************************************)
\* The inner ProjectField node of the stepped node, and its outer Select on a
\* projected subject p.
InnerProjectField ==
  [kind |-> "ProjectField", subject |-> node.subject, variants |-> node.variants,
   selector |-> node.selector]

OuterSelect(p) ==
  SelectNode(p, node.variants, Select(node.selector.product, None))

NoSourceOfProjected(n) == Throw("No source of projected dependency " \o Node_format(n))

\* C17: a SelectProjection first waits on its inner ProjectField node alone;
\* once that Returned p it looks up Select{product} on p with the same
\* variants, waiting on it alone if missing; an outer Return(w) gives
\* Complete(Return(w)), an outer Noop gives Complete(Throw(no source of
\* projected dependency)); it never waits on the outer Select before the inner
\* ProjectField has Returned.
C17_ProjectionStages ==
  (out # Unstepped /\ node.kind = "SelectProjection") =>
    /\ InnerProjectField \notin DOMAIN seen => out = Waiting(<<InnerProjectField>>)
    /\ (InnerProjectField \in DOMAIN seen /\ seen[InnerProjectField].kind = "Return") =>
         LET outer == OuterSelect(seen[InnerProjectField].key)
         IN  /\ outer \notin DOMAIN seen => out = Waiting(<<outer>>)
             /\ (outer \in DOMAIN seen /\ seen[outer].kind = "Return") =>
                  out = Complete(Return(seen[outer].key))
             /\ (outer \in DOMAIN seen /\ seen[outer].kind = "Noop") =>
                  out = Complete(NoSourceOfProjected(outer))
    /\ (out.kind = "Waiting" /\ out.nodes # <<InnerProjectField>>) =>
         /\ InnerProjectField \in DOMAIN seen
         /\ seen[InnerProjectField].kind = "Return"

\* C17 witness: the inner ProjectField Returned a projected subject other than
\* the node's subject, the outer Select on it Returned w, and the step
\* completed with w.
C17_Witness ==
  /\ node.kind = "SelectProjection"
  /\ InnerProjectField \in DOMAIN seen
  /\ seen[InnerProjectField].kind = "Return"
  /\ seen[InnerProjectField].key # node.subject
  /\ OuterSelect(seen[InnerProjectField].key) \in DOMAIN seen
  /\ out.kind = "Complete"
  /\ out.complete.kind = "Return"
  /\ out.complete.key # seen[InnerProjectField].key

(***************************************************************************)
(* externs.rs: callers of one IsSubClassFunction instance, in any order.   *)
(***************************************************************************)
BridgeTypes == {"Address", "SubAddress", "P"}

Call(cls, super_cls) ==
  /\ bridge' = IsSubClassFunction_call_cached(bridge, cls, super_cls)
  /\ UNCHANGED <<registry, ghost, calls, node, deps, seen, out, sched>>

InitBridge ==
  /\ registry = Tasks_new
  /\ ghost = GhostInit
  /\ calls = 0
  /\ node = NoNode
  /\ deps = EmptyMap
  /\ seen = EmptyMap
  /\ out = Unstepped
  /\ sched = EmptyMap
  /\ bridge = IsSubClassFunction_new

NextBridge == \E cls \in BridgeTypes, super_cls \in BridgeTypes : Call(cls, super_cls)

SpecBridge == InitBridge /\ [][NextBridge]_vars

\* C18: with a deterministic host, every call of the bridge returns the host's
\* answer for its pair; every cache entry equals the host's answer for its key
\* and is never changed or removed; the host is invoked at most once per pair.
C18_SubclassCache ==
  /\ [](bridge.result # None =>
          bridge.result[1].answer =
            HostIsSubclass(bridge.result[1].cls, bridge.result[1].super_cls))
  /\ [](\A k \in DOMAIN bridge.cache : bridge.cache[k] = HostIsSubclass(k[1], k[2]))
  /\ [](\A k \in DOMAIN bridge.invoked : bridge.invoked[k] <= 1)
  /\ [][\A k \in DOMAIN bridge.cache :
          k \in DOMAIN bridge'.cache /\ bridge'.cache[k] = bridge.cache[k]]_vars

\* C18 witness: a pair the host answers true for was asked again after other
\* pairs of the same class had been cached, and the call answered true.
C18_Witness ==
  /\ bridge.result = Some([cls |-> "SubAddress", super_cls |-> "Address", answer |-> TRUE])
  /\ <<"SubAddress", "P">> \in DOMAIN bridge.cache
  /\ <<"SubAddress", "SubAddress">> \in DOMAIN bridge.cache
  /\ <<"SubAddress", "Address">> \in DOMAIN bridge.invoked
  /\ Cardinality(DOMAIN bridge.cache) = Cardinality(DOMAIN bridge.invoked)
  /\ Cardinality(DOMAIN bridge.cache) >= 4

(***************************************************************************)
(* Properties of the graph of nodes a scheduler builds.                    *)
(***************************************************************************)
\* The nodes n waits on, by the Waiting set its last step returned.
WaitsOn(table, n) ==
  IF table[n].status = "Waiting" THEN Range(table[n].nodes) ELSE {}

RECURSIVE ReachFrom(_, _, _)
ReachFrom(table, frontier, acc) ==
  LET next == UNION {WaitsOn(table, x) : x \in frontier} \ acc
  IN  IF next = {} THEN acc ELSE ReachFrom(table, next, acc \cup next)

TransitivelyWaitsOn(table, n) == ReachFrom(table, {n}, {})

\* C19: the graph of nodes reachable through the Waiting sets returned by step
\* is acyclic: no node is ever, transitively, waiting on itself.
C19_Acyclic ==
  \A r \in Runs : \A n \in DOMAIN sched[r].table :
    n \notin TransitivelyWaitsOn(sched[r].table, n)

\* The has-variants sub-node of the stepped Select: same subject and variants.
VariantsSubNode ==
  SelectNode(node.subject, node.variants, Select(type_has_variants, None))

\* The subject's type satisfies type_address under the host's subclass relation.
SubjectIsAddress ==
  \/ node.subject.type_id = type_address
  \/ HostIsSubclass(node.subject.type_id, type_address)

\* C20: a Select step requests Select{type_has_variants, None} on the same
\* subject and variants exactly when the subject's type satisfies type_address
\* and the product is not type_has_variants: while that sub-node is missing the
\* step is Waiting on it alone, once it completed Noop the step goes on with
\* the node's own variants, and otherwise the sub-node is never waited on.
C20_VariantsSubSelect ==
  (out # Unstepped /\ node.kind = "Select") =>
    LET wanted == SubjectIsAddress /\ node.selector.product # type_has_variants
    IN  /\ (wanted /\ VariantsSubNode \notin DOMAIN seen) =>
             out = Waiting(<<VariantsSubNode>>)
        /\ (wanted /\ VariantsSubNode \in DOMAIN seen /\ seen[VariantsSubNode].kind = "Noop") =>
             out = Select_step_from_gate(node, SeenContext, node.variants)
        /\ ~wanted =>
             ~(out.kind = "Waiting" /\ VariantsSubNode \in Range(out.nodes))

(***************************************************************************)
(* Task inputs that completed Noop.                                        *)
(***************************************************************************)
\* The design document's optional selectors, by its own example: a Select that
\* names a variant key.  The host's None key stands in for their value.
IsOptional(selector) == selector.kind = "Select" /\ selector.variant_key # None

kNone == Key(0, "NoneType")

\* The positions of the stepped Task's clause whose node is Noop in the map.
SeenNoopInputs ==
  {i \in 1..Len(ClauseNodes) :
     ClauseNodes[i] \in DOMAIN seen /\ seen[ClauseNodes[i]].kind = "Noop"}

\* C21: in a Task step, a clause dependency that completed Noop under an
\* optional selector contributes the host's None key at its position, and with
\* every other clause node Returned the Task is Runnable; a Noop under a
\* selector that is not optional completes the Task with Noop, never Runnable.
C21_TaskNoopInputs ==
  (out # Unstepped /\ node.kind = "Task" /\ SeenNoopInputs # {}) =>
    /\ (/\ \A i \in SeenNoopInputs : IsOptional(node.selector.clause[i])
        /\ \A i \in 1..Len(ClauseNodes) :
             ClauseNodes[i] \in DOMAIN seen /\ seen[ClauseNodes[i]].kind \in {"Return", "Noop"}) =>
         out = RunnableState(
                 [func |-> node.selector.func,
                  args |-> [i \in 1..Len(ClauseNodes) |->
                              IF i \in SeenNoopInputs THEN ArgValue(kNone)
                              ELSE ArgValue(seen[ClauseNodes[i]].key)],
                  cacheable |-> node.selector.cacheable])
    /\ (\E i \in SeenNoopInputs : ~IsOptional(node.selector.clause[i])) =>
         out.kind = "Complete" /\ out.complete.kind = "Noop"

(***************************************************************************)
(* The values a Select step Returns.                                       *)
(***************************************************************************)
\* v's type satisfies the stepped Select's product: equal, or a host subclass.
TypeSatisfiesProduct(v) ==
  \/ v.type_id = node.selector.product
  \/ HostIsSubclass(v.type_id, node.selector.product)

\* The stepped Select got to its task match over at least one rule: past the
\* has-variants sub-select, its variant key (if any) configured, its subject
\* neither of the product's type nor a holder of products.
InTaskMatch ==
  /\ PastVariantsSubSelect
  /\ node.selector.variant_key # None => VariantPositions(node.selector.variant_key[1]) # {}
  /\ ~TypeSatisfiesProduct(node.subject)
  /\ node.subject.type_id # type_has_products
  /\ ~HostIsSubclass(node.subject.type_id, type_has_products)
  /\ SelectCandidates # <<>>

\* C22: every Complete(Return(v)) of a Select step has v of a type satisfying
\* the product, v being the subject or the value a candidate Task Returned; a
\* candidate's Return value that fails the test is skipped, so that with every
\* candidate complete, none Throw and no Returned value satisfying the product,
\* the step is Complete(Noop), not Return.
C22_SelectResultsSatisfyProduct ==
  (out # Unstepped /\ node.kind = "Select") =>
    /\ (out.kind = "Complete" /\ out.complete.kind = "Return") =>
         /\ TypeSatisfiesProduct(out.complete.key)
         /\ \/ out.complete.key = node.subject
            \/ \E d \in Range(SelectCandidates) :
                 d \in DOMAIN seen /\ seen[d] = Return(out.complete.key)
    /\ (/\ InTaskMatch
        /\ \A d \in Range(SelectCandidates) :
             /\ d \in DOMAIN seen
             /\ seen[d].kind # "Throw"
             /\ seen[d].kind = "Return" => ~TypeSatisfiesProduct(seen[d].key)) =>
         out = Complete(Noop("No task was available to compute the value.", None))

(***************************************************************************)
(* The order of the registration calls.                                    *)
(***************************************************************************)
\* The registry after a call that aborted without changing it.
AbortedUnchanged == [registry EXCEPT !.aborted = TRUE]

\* C23: task_add while a rule is being prepared aborts and leaves that rule in
\* place; add_select, add_select_dependencies, add_select_projection,
\* add_select_literal and task_end while no rule is being prepared abort and
\* leave tasks and intrinsics as they were.  So in every non-aborted state at
\* most one rule is under construction, and the registered builder rules are
\* exactly those that went through task_add, add_* and task_end in that order.
C23_RegistrationOrder ==
  /\ registry.preparing # None =>
       /\ \A func \in {"f1", "f2"}, product \in RegProducts :
            task_add(registry, func, product) = AbortedUnchanged
       /\ registry.aborted => (/\ ghost.current # None
                               /\ registry.preparing = Some(BuilderRule(ghost.current[1])))
  /\ registry.preparing = None =>
       /\ \A variant_key \in {None, Some(vkA)} :
            add_select(registry, "Q", variant_key) = AbortedUnchanged
       /\ add_select_dependencies(registry, "P", "Q", fDeps, FALSE) = AbortedUnchanged
       /\ add_select_projection(registry, "P", "Address", fProj, "Q") = AbortedUnchanged
       /\ add_select_literal(registry, kQ, "Q") = AbortedUnchanged
       /\ task_end(registry) = AbortedUnchanged
  /\ ~registry.aborted =>
       /\ Len(registry.preparing) <= 1
       /\ (registry.preparing = None) <=> (ghost.current = None)
       /\ \A P \in DOMAIN registry.tasks : registry.tasks[P] = EndedFor(P)

\* C23 witness: task_add was called while a rule with a clause was being
\* prepared, next to a registered rule: the call aborted and the prepared rule
\* is still in place.
C23_Witness ==
  /\ registry.aborted
  /\ registry.preparing # None
  /\ registry.preparing[1].clause # <<>>
  /\ DOMAIN registry.tasks # {}

\* C23 witness of a call out of order: an add_* or task_end was called with no
\* rule being prepared, after a rule had been registered.
C23_WitnessNoRule ==
  /\ registry.aborted
  /\ registry.preparing = None
  /\ ghost.current = None
  /\ NoDuplicates(ghost.ended)
  /\ DOMAIN registry.tasks # {}

(***************************************************************************)
(* Progress of the Waiting sets.                                           *)
(***************************************************************************)
\* The sub-maps of the last map under which a step of the node was Waiting(D)
\* with every node of D complete in the last map.
WaitedBefore ==
  {S \in SUBSET DOMAIN seen :
     LET before == Node_step(node, Restrict(seen, S), registry)
     IN  before.kind = "Waiting" /\ Range(before.nodes) \subseteq DOMAIN seen}

\* C24: whenever a step returns Waiting(D), D is not empty and no node of D has
\* an entry in the map; and when the node was Waiting(D) under a part of the map
\* and every node of D is now complete, a returned Waiting set holds no node
\* of D.
C24_WaitingProgress ==
  (out # Unstepped /\ out.kind = "Waiting") =>
    /\ out.nodes # <<>>
    /\ \A d \in Range(out.nodes) : d \notin DOMAIN seen
    /\ \A S \in WaitedBefore :
         Range(out.nodes) \cap Range(Node_step(node, Restrict(seen, S), registry).nodes) = {}

\* C24 witness: the node was Waiting on nodes that are all complete now, and
\* the step with them returned a Waiting set again, of two other nodes.
C24_Witness ==
  /\ out.kind = "Waiting"
  /\ Len(out.nodes) >= 2
  /\ \E S \in WaitedBefore : S # DOMAIN seen

(***************************************************************************)
(* A single weakly fair scheduler: a step or a dispatch that stays possible *)
(* is eventually made.                                                     *)
(***************************************************************************)
InitSchedFair ==
  /\ registry \in SchedRegistries
  /\ ghost = GhostInit
  /\ calls = 0
  /\ node \in SchedRoots
  /\ deps = EmptyMap
  /\ seen = EmptyMap
  /\ out = Unstepped
  /\ sched = [r \in {1} |-> [table |-> [x \in {node} |-> UnseenEntry], crashed |-> FALSE]]
  /\ bridge = IsSubClassFunction_new

SpecSchedFair == InitSchedFair /\ [][NextSched]_vars /\ WF_vars(NextSched)

\* The premises of eventual completion fail: some node waits on itself, or a
\* step aborted.
CyclicOrAborted ==
  \E r \in DOMAIN sched :
    \/ sched[r].crashed
    \/ \E n \in DOMAIN sched[r].table : n \in TransitivelyWaitsOn(sched[r].table, n)

RootDone == \A r \in DOMAIN sched : sched[r].table[node].status = "Done"

\* A Waiting node whose Waiting set is all Done can be stepped, and that step
\* does not leave it waiting on any of them.
NoStuckWaiting ==
  \A r \in DOMAIN sched : \A n \in DOMAIN sched[r].table :
    (/\ ~sched[r].crashed
     /\ sched[r].table[n].status = "Waiting"
     /\ \A d \in Range(sched[r].table[n].nodes) : sched[r].table[d].status = "Done") =>
      LET s == Node_step(n, Completions(sched[r].table), registry)
      IN  /\ CanStep(sched[r].table, n)
          /\ s.kind = "Waiting" => Range(s.nodes) \cap Range(sched[r].table[n].nodes) = {}

\* C25: when the nodes reachable from the root form an acyclic graph and no
\* step aborts, a weakly fair scheduler eventually brings the root to Done; and
\* no reachable state leaves a node Waiting with its whole Waiting set Done and
\* no further step to make.
C25_EventualCompletion ==
  /\ []NoStuckWaiting
  /\ <>(RootDone \/ CyclicOrAborted)

\* C25 witness: on the acyclic registry the root is Done after a Task under it
\* was dispatched to the host.
C25_Witness ==
  /\ registry = SchedRegistry
  /\ RootDone
  /\ ~CyclicOrAborted
  /\ \A r \in DOMAIN sched : \E n \in DOMAIN sched[r].table :
       /\ n.kind = "Task"
       /\ sched[r].table[n].status = "Done"
       /\ sched[r].table[n].complete.kind = "Return"

=============================================================================
